---- MODULE Spec2Model ----
(***************************************************************************)
(* Photo processing pipeline: the web producer (services/web.py) publishes *)
(* one AMQP message per photo uuid; the consumer                            *)
(* (services/message_consumer.py) pulls the messages one at a time,        *)
(* downloads the image, writes a thumbnail, inserts a photo_thumbnails row *)
(* and moves the photo's status.                                           *)
(***************************************************************************)
EXTENDS Integers, Sequences, FiniteSets, TLC

(* ---------------- bounds of the model ---------------- *)
\* number of identifiers submitted in all POST /photos/process requests together
MaxSubmitted == 2
\* number of POST /photos/process requests
MaxRequests == 2
\* number of times the consumer program is started
MaxStarts == 2

(* ---------------- program constants ---------------- *)
THUMBNAIL_DIMENSIONS == <<320, 320>>
THUMBNAIL_DIR == "/root/waldo-app-thumbs"
THUMBNAIL_FILE_EXT == ".jpg"
HTTP_OK == 200

(* ---------------- uuid.UUID ---------------- *)
\* characters of an identifier string: hex digits 0..15 and the hyphen
Hyphen == 16

\* uuid.UUID(i): hyphens are stripped; anything but 32 hex digits is a
\* ValueError.  The UUID value (its 128-bit int) is kept as its 32 hex digits,
\* most significant first.
UUID_hex(s) == SelectSeq(s, LAMBDA c : c # Hyphen)

\* TRUE iff uuid.UUID(s) does not raise ValueError
UUID_valid(s) ==
    /\ Len(UUID_hex(s)) = 32
    /\ \A k \in 1..32 : UUID_hex(s)[k] \in 0..15

\* UUID.bytes with the byte order reversed (mutation of UUID_bytes)
UUID_bytes_le(u) == [k \in 1..16 |-> 16 * u[33 - 2 * k] + u[34 - 2 * k]]

\* UUID.bytes: the int as 16 bytes, big-endian
UUID_bytes(u) == [k \in 1..16 |-> 16 * u[2 * k - 1] + u[2 * k]]

\* uuid.UUID(bytes=body): int.from_bytes(body, 'big'), as 32 hex digits
UUID_from_bytes(b) ==
    [k \in 1..32 |-> IF k % 2 = 1 THEN b[(k + 1) \div 2] \div 16
                                  ELSE b[k \div 2] % 16]

\* str(uuid): 8-4-4-4-12 hyphenated hex
UUID_str(u) ==
    SubSeq(u, 1, 8) \o <<Hyphen>> \o SubSeq(u, 9, 12) \o <<Hyphen>> \o
    SubSeq(u, 13, 16) \o <<Hyphen>> \o SubSeq(u, 17, 20) \o <<Hyphen>> \o
    SubSeq(u, 21, 32)

(* ---------------- identifiers used as inputs ---------------- *)
HexA == [k \in 1..32 |-> k % 16]
HexB == [k \in 1..32 |-> (3 * k + 1) % 16]
HexC == [k \in 1..32 |-> (5 * k + 2) % 16]
HexD == [k \in 1..32 |-> (7 * k + 3) % 16]

\* a photo with a record, submitted in the hyphenated form
StrA == UUID_str(HexA)
\* a photo with a record, submitted as 32 bare hex digits
StrB == HexB
\* a well-formed uuid with no photos row
StrC == HexC
\* not a uuid: 31 hex digits
StrBad == SubSeq(HexA, 1, 31)

Identifiers == {StrA, StrB, StrC, StrBad}

\* the lists a request may carry: all lists of at most n identifiers
RequestLists(n) == UNION {[1..m -> Identifiers] : m \in 0..n}

\* primary keys of the rows of the photos table; HexD is a photo that is never
\* submitted for processing
PhotoKeys == {HexA, HexB, HexD}

\* photos.created_at by photos.uuid (immutable)
CreatedAt == (HexD :> 1) @@ (HexB :> 2) @@ (HexA :> 3)

(* ---------------- HTTP transport outcomes ---------------- *)
\* req.content: a bytes object (len), which PIL can decode (w x h) or not
Body(len, decodable, w, h) ==
    [none |-> FALSE, len |-> len, decodable |-> decodable, w |-> w, h |-> h]

None == [none |-> TRUE, len |-> 0, decodable |-> FALSE, w |-> 0, h |-> 0]

EmptyBody == Body(0, FALSE, 0, 0)
NonImageBody == Body(9, FALSE, 0, 0)
SmallImage == Body(1000, TRUE, 100, 50)
LargeImage == Body(5000, TRUE, 640, 480)

\* photos.url by photos.uuid (immutable), and the image each url serves when
\* it serves one
PhotoUrl ==
    (HexA :> "https://img/a") @@ (HexB :> "https://img/b") @@ (HexD :> "https://img/d")
ImageAt(url) == IF url = "https://img/a" THEN SmallImage ELSE LargeImage

\* what requests.get(url) can do
Transport(url) ==
    {[kind |-> "response", status_code |-> HTTP_OK, content |-> c] :
        c \in {ImageAt(url), EmptyBody, NonImageBody}}
    \cup {[kind |-> "response", status_code |-> 404, content |-> NonImageBody]}
    \cup {[kind |-> k, status_code |-> 0, content |-> None] :
        k \in {"ConnectionError", "HTTPError", "ChunkedEncodingError"}}

NoTransport == [kind |-> "none", status_code |-> 0, content |-> None]

(* ---------------- Pillow ---------------- *)
Max(a, b) == IF a >= b THEN a ELSE b

\* Image.thumbnail fitting the width only (mutation of thumbnail)
thumbnail_width_only(w, h, size) ==
    IF w > size[1] THEN <<size[1], Max((h * size[1]) \div w, 1)>> ELSE <<w, h>>

\* Image.thumbnail(size): shrink to fit the box, keep the aspect ratio,
\* never enlarge
thumbnail(w, h, size) ==
    LET y1 == IF w > size[1] THEN Max((h * size[1]) \div w, 1) ELSE h
        x1 == IF w > size[1] THEN size[1] ELSE w
        x2 == IF y1 > size[2] THEN Max((x1 * size[2]) \div y1, 1) ELSE x1
        y2 == IF y1 > size[2] THEN size[2] ELSE y1
    IN  <<x2, y2>>

(* ---------------- state ---------------- *)
VARIABLES
    \* web.py, process_photos
    webpc,          \* "idle" | "publish" | "returned" | "raised"
    uuids,          \* process_photos_request.uuids
    i,              \* position of the for loop in uuids
    sent,           \* the messages published by this call, in order
    nreq,           \* number of requests received so far
    nsub,           \* number of identifiers received so far
    \* the durable queue 'photo-processor'
    queue,          \* messages ready for delivery, oldest first
    npub,           \* number of messages published so far
    acked,          \* ids of the messages acknowledged
    \* the database
    status,         \* photos.status by photos.uuid (committed)
    thumbs,         \* rows of photo_thumbnails (committed)
    files,          \* files under THUMBNAIL_DIR: [url, width, height]
    \* message_consumer.py
    cpc,            \* position of the consumer process
    starts,         \* number of times the consumer program was started
    default_uuid,   \* PhotoThumbnails.uuid column default of this process
    msg,            \* the message delivered and not yet acknowledged
    photo_uuid,     \* process_photo_message's argument
    resp,           \* outcome of requests.get in download_img
    img_content,    \* download_img's return value
    photo_thumbnail,\* create_img_thumbnail's return value
    exc,            \* the exception being raised
    thumbs0,        \* photo_thumbnails rows when process_photo_message was entered
    returned,       \* ids of the messages whose process_photo_message call returned
    \* web.py, get_pending_photos_handler
    qpc,            \* "idle" | "queried"
    photos          \* the rows the query returned

webvars == <<webpc, uuids, i, sent, nreq, nsub>>
queuevars == <<queue, npub, acked>>
dbvars == <<status, thumbs, files>>
callvars == <<photo_uuid, resp, img_content, photo_thumbnail, thumbs0>>
procvars == <<starts, default_uuid>>
queryvars == <<qpc, photos>>
vars == <<webvars, queuevars, dbvars, callvars, procvars, cpc, msg, exc, returned, queryvars>>

NoMsg == [id |-> 0, ident |-> <<>>, body |-> <<>>]
NoUUID == <<>>
NoThumbnail == [uuid |-> 0, photo_uuid |-> NoUUID, width |-> 0, height |-> 0, url |-> <<>>]
NoException == "none"

Status == {"pending", "completed", "processing", "failed"}

\* rows of photo_thumbnails that reference photo p
ThumbnailsOf(p) == {t \in thumbs : t.photo_uuid = p}

Init ==
    /\ webpc = "idle" /\ uuids = <<>> /\ i = 1 /\ sent = <<>> /\ nreq = 0 /\ nsub = 0
    /\ queue = <<>> /\ npub = 0 /\ acked = {}
    /\ status = [p \in PhotoKeys |-> "pending"]
    /\ thumbs = {}
    /\ files = {}
    /\ cpc = "stopped" /\ starts = 0 /\ default_uuid = 0
    /\ msg = NoMsg /\ photo_uuid = NoUUID /\ resp = NoTransport
    /\ img_content = None /\ photo_thumbnail = NoThumbnail
    /\ exc = NoException /\ thumbs0 = {} /\ returned = {}
    /\ qpc = "idle" /\ photos = <<>>

(* ---------------- web.py: process_photos ---------------- *)
\* POST /photos/process: the handler parses the request and process_photos
\* opens the connection and declares the queue
Request ==
    /\ webpc \in {"idle", "returned", "raised"}
    /\ nreq < MaxRequests
    /\ \E l \in RequestLists(MaxSubmitted - nsub) :
        /\ uuids' = l
        /\ nsub' = nsub + Len(l)
    /\ i' = 1
    /\ sent' = <<>>
    /\ nreq' = nreq + 1
    /\ webpc' = "publish"
    /\ UNCHANGED <<queryvars, queuevars, dbvars, callvars, procvars, cpc, msg, exc, returned>>

\* Publish that skips an identifier that is no uuid and goes on with the next
\* (mutation of Publish)
PublishSkipInvalid ==
    /\ webpc = "publish"
    /\ i <= Len(uuids)
    /\ IF UUID_valid(uuids[i])
       THEN LET m == [id |-> npub + 1, ident |-> uuids[i],
                      body |-> UUID_bytes(UUID_hex(uuids[i]))]
            IN  /\ queue' = Append(queue, m)
                /\ npub' = npub + 1
                /\ sent' = Append(sent, m)
       ELSE UNCHANGED <<queue, npub, sent>>
    /\ i' = i + 1
    /\ webpc' = "publish"
    /\ UNCHANGED <<queryvars, uuids, nreq, nsub, acked, dbvars, callvars, procvars, cpc,
                   msg, exc, returned>>

\* one iteration of 'for i in process_photos_request.uuids'
Publish ==
    /\ webpc = "publish"
    /\ i <= Len(uuids)
    /\ IF UUID_valid(uuids[i])
       THEN LET m == [id |-> npub + 1, ident |-> uuids[i],
                      body |-> UUID_bytes(UUID_hex(uuids[i]))]
            IN  /\ queue' = Append(queue, m)
                /\ npub' = npub + 1
                /\ sent' = Append(sent, m)
                /\ i' = i + 1
                /\ webpc' = "publish"
       ELSE \* uuid.UUID(i) raises ValueError: the loop is left, nothing more is published
            /\ webpc' = "raised"
            /\ UNCHANGED <<queue, npub, sent, i>>
    /\ UNCHANGED <<queryvars, uuids, nreq, nsub, acked, dbvars, callvars, procvars, cpc, msg, exc, returned>>

\* the list is drained: conn.close() and the handler answers
Close ==
    /\ webpc = "publish"
    /\ i > Len(uuids)
    /\ webpc' = "returned"
    /\ UNCHANGED <<queryvars, uuids, i, sent, nreq, nsub, queuevars, dbvars, callvars, procvars, cpc, msg, exc, returned>>

(* ---------------- web.py: get_pending_photos_handler ---------------- *)
\* Photos.to_dict() of the row with primary key p, as stored in st
to_dict(p, st) ==
    [uuid |-> p, url |-> PhotoUrl[p], status |-> st[p], created_at |-> CreatedAt[p]]

\* order_by(Photos.created_at): the keys of S, oldest first
RECURSIVE order_by_created_at(_)
order_by_created_at(S) ==
    IF S = {}
    THEN <<>>
    ELSE LET first == CHOOSE p \in S : \A q \in S : CreatedAt[p] <= CreatedAt[q]
         IN  <<first>> \o order_by_created_at(S \ {first})

\* the query without filter_by (mutation of pending_photos)
all_photos(st) ==
    LET keys == order_by_created_at(DOMAIN st)
    IN  [k \in 1..Len(keys) |-> to_dict(keys[k], st)]

\* Photos.query.filter_by(status='pending').order_by(Photos.created_at).all(),
\* each row through to_dict
pending_photos(st) ==
    LET keys == order_by_created_at({p \in DOMAIN st : st[p] = "pending"})
    IN  [k \in 1..Len(keys) |-> to_dict(keys[k], st)]

\* GET /photos/pending: the query runs against the committed rows
GetPending ==
    /\ qpc = "idle"
    /\ photos' = pending_photos(status)
    /\ qpc' = "queried"
    /\ UNCHANGED <<webvars, queuevars, dbvars, callvars, procvars, cpc, msg, exc, returned>>

\* the handler answers jsonify(photos_json)
Respond ==
    /\ qpc = "queried"
    /\ photos' = <<>>
    /\ qpc' = "idle"
    /\ UNCHANGED <<webvars, queuevars, dbvars, callvars, procvars, cpc, msg, exc, returned>>

(* ---------------- message_consumer.py: download_img ---------------- *)
\* download_img on transport outcome r: what it returns or raises
download_img(r) ==
    IF r.kind = "response"
    THEN IF r.status_code # HTTP_OK \/ r.content = None
         THEN [raises |-> "ImgFileDownloadError", value |-> None]
         ELSE [raises |-> NoException, value |-> r.content]
    ELSE IF r.kind \in {"HTTPError", "ConnectionError"}
         THEN [raises |-> "ImgFileDownloadError", value |-> None]
         ELSE [raises |-> r.kind, value |-> None]

(* ---------------- message_consumer.py: create_img_thumbnail ---------------- *)
thumbnail_url(u) == <<THUMBNAIL_DIR, UUID_str(u), ".thumbnail", THUMBNAIL_FILE_EXT>>

\* create_img_thumbnail(img_content, photo_uuid): Image.open raises IOError on
\* bytes that are no image; otherwise the thumbnail is saved and its size read
\* back from the saved file
create_img_thumbnail(content, u) ==
    IF ~content.decodable
    THEN [raises |-> "ImgThumbnailError", value |-> NoThumbnail]
    ELSE LET size == thumbnail(content.w, content.h, THUMBNAIL_DIMENSIONS)
         IN  [raises |-> NoException,
              value |-> [uuid |-> 0, photo_uuid |-> u, width |-> size[1],
                         height |-> size[2], url |-> thumbnail_url(u)]]

(* ---------------- message_consumer.py: the consumer process ---------------- *)
ClearCall ==
    /\ photo_uuid' = NoUUID
    /\ resp' = NoTransport
    /\ img_content' = None
    /\ photo_thumbnail' = NoThumbnail
    /\ thumbs0' = {}

\* the program is started: the module is imported, which evaluates the column
\* default uuid.uuid4() of PhotoThumbnails.uuid once, and
\* init_message_consumer opens the channel
Start ==
    /\ cpc = "stopped"
    /\ starts < MaxStarts
    /\ starts' = starts + 1
    /\ default_uuid' = starts + 1
    /\ exc' = NoException
    /\ cpc' = "consume"
    /\ UNCHANGED <<queryvars, webvars, queuevars, dbvars, callvars, msg, returned>>

\* Consume with the message acknowledged on receipt (mutation of Consume)
ConsumeAutoAck ==
    /\ cpc = "consume"
    /\ queue # <<>>
    /\ msg' = Head(queue)
    /\ queue' = Tail(queue)
    /\ acked' = acked \cup {Head(queue).id}
    /\ photo_uuid' = UUID_from_bytes(Head(queue).body)
    /\ thumbs0' = thumbs
    /\ cpc' = "get"
    /\ UNCHANGED <<queryvars, webvars, npub, dbvars, resp, img_content, photo_thumbnail,
                   procvars, exc, returned>>

\* Consume taking the newest message of the queue (mutation of Consume)
ConsumeNewest ==
    /\ cpc = "consume"
    /\ queue # <<>>
    /\ msg' = queue[Len(queue)]
    /\ queue' = SubSeq(queue, 1, Len(queue) - 1)
    /\ photo_uuid' = UUID_from_bytes(queue[Len(queue)].body)
    /\ thumbs0' = thumbs
    /\ cpc' = "get"
    /\ UNCHANGED <<queryvars, webvars, npub, acked, dbvars, resp, img_content, photo_thumbnail,
                   procvars, exc, returned>>

\* channel.consume yields the next message; its body is decoded and
\* process_photo_message is called
Consume ==
    /\ cpc = "consume"
    /\ queue # <<>>
    /\ msg' = Head(queue)
    /\ queue' = Tail(queue)
    /\ photo_uuid' = UUID_from_bytes(Head(queue).body)
    /\ thumbs0' = thumbs
    /\ cpc' = "get"
    /\ UNCHANGED <<queryvars, webvars, npub, acked, dbvars, resp, img_content, photo_thumbnail,
                   procvars, exc, returned>>

\* Get without the test for a missing row (mutation of Get)
GetNoCheck ==
    /\ cpc = "get"
    /\ cpc' = "set_processing"
    /\ UNCHANGED <<queryvars, webvars, queuevars, dbvars, callvars, procvars, msg, exc,
                   returned>>

\* photo = Photos.query.get(photo_uuid); no row raises NoPhotoRecordFoundError
Get ==
    /\ cpc = "get"
    /\ IF photo_uuid \in DOMAIN status
       THEN cpc' = "set_processing" /\ exc' = exc
       ELSE cpc' = "raised" /\ exc' = "NoPhotoRecordFoundError"
    /\ UNCHANGED <<queryvars, webvars, queuevars, dbvars, callvars, procvars, msg, returned>>

\* SetProcessing without the commit, the write staying in the session
\* (mutation of SetProcessing)
SetProcessingNoCommit ==
    /\ cpc = "set_processing"
    /\ cpc' = "download"
    /\ UNCHANGED <<queryvars, webvars, queuevars, dbvars, callvars, procvars, msg, exc,
                   returned>>

\* photo.status = 'processing'; db.session.commit()
SetProcessing ==
    /\ cpc = "set_processing"
    /\ status' = [status EXCEPT ![photo_uuid] = "processing"]
    /\ cpc' = "download"
    /\ UNCHANGED <<queryvars, webvars, queuevars, thumbs, files, callvars, procvars, msg, exc, returned>>

\* img_content = download_img(photo.url)
Download ==
    /\ cpc = "download"
    /\ \E r \in Transport(PhotoUrl[photo_uuid]) :
        LET res == download_img(r)
        IN  /\ resp' = r
            /\ img_content' = res.value
            /\ IF res.raises = NoException
               THEN cpc' = "thumbnail" /\ exc' = exc
               ELSE IF res.raises = "ImgFileDownloadError"
                    THEN cpc' = "except" /\ exc' = res.raises
                    ELSE cpc' = "raised" /\ exc' = res.raises
    /\ UNCHANGED <<queryvars, webvars, queuevars, dbvars, photo_uuid, photo_thumbnail, thumbs0,
                   procvars, msg, returned>>

\* photo_thumbnail = create_img_thumbnail(img_content, photo_uuid)
Thumbnail ==
    /\ cpc = "thumbnail"
    /\ LET res == create_img_thumbnail(img_content, photo_uuid)
       IN  /\ photo_thumbnail' = res.value
           /\ IF res.raises = NoException
              THEN /\ files' = {f \in files : f.url # res.value.url}
                                \cup {[url |-> res.value.url, width |-> res.value.width,
                                       height |-> res.value.height]}
                   /\ cpc' = "insert"
                   /\ exc' = exc
              ELSE /\ files' = files
                   /\ cpc' = "except"
                   /\ exc' = res.raises
    /\ UNCHANGED <<queryvars, webvars, queuevars, status, thumbs, photo_uuid, resp, img_content,
                   thumbs0, procvars, msg, returned>>

\* Insert whose failure is handled by the except clause (mutation of Insert)
InsertHandled ==
    /\ cpc = "insert"
    /\ IF \E t \in thumbs : t.uuid = default_uuid
       THEN /\ cpc' = "except"
            /\ exc' = "IntegrityError"
            /\ thumbs' = thumbs
       ELSE /\ thumbs' = thumbs \cup {[photo_thumbnail EXCEPT !.uuid = default_uuid]}
            /\ cpc' = "set_completed"
            /\ exc' = exc
    /\ UNCHANGED <<queryvars, webvars, queuevars, status, files, callvars, procvars, msg,
                   returned>>

\* Insert whose row is not committed (mutation of Insert)
InsertNoRow ==
    /\ cpc = "insert"
    /\ IF \E t \in thumbs : t.uuid = default_uuid
       THEN /\ cpc' = "raised"
            /\ exc' = "IntegrityError"
       ELSE /\ cpc' = "set_completed"
            /\ exc' = exc
    /\ UNCHANGED <<queryvars, webvars, queuevars, dbvars, callvars, procvars, msg,
                   returned>>

\* db.session.add(photo_thumbnail); db.session.commit(): the INSERT takes the
\* primary key from the column default of this process
Insert ==
    /\ cpc = "insert"
    /\ IF \E t \in thumbs : t.uuid = default_uuid
       THEN /\ cpc' = "raised"
            /\ exc' = "IntegrityError"
            /\ thumbs' = thumbs
       ELSE /\ thumbs' = thumbs \cup {[photo_thumbnail EXCEPT !.uuid = default_uuid]}
            /\ cpc' = "set_completed"
            /\ exc' = exc
    /\ UNCHANGED <<queryvars, webvars, queuevars, status, files, callvars, procvars, msg, returned>>

\* photo.status = 'completed'; db.session.commit(); the call returns
SetCompleted ==
    /\ cpc = "set_completed"
    /\ status' = [status EXCEPT ![photo_uuid] = "completed"]
    /\ returned' = returned \cup {msg.id}
    /\ cpc' = "ack"
    /\ UNCHANGED <<queryvars, webvars, queuevars, thumbs, files, callvars, procvars, msg, exc>>

\* the except clause without the status write (mutation of Except)
ExceptNoStatus ==
    /\ cpc = "except"
    /\ cpc' = "raise"
    /\ UNCHANGED <<queryvars, webvars, queuevars, dbvars, callvars, procvars, msg, exc, returned>>

\* except (ImgFileDownloadError, ImgThumbnailError): photo.status = 'failed';
\* db.session.commit()
Except ==
    /\ cpc = "except"
    /\ status' = [status EXCEPT ![photo_uuid] = "failed"]
    /\ cpc' = "raise"
    /\ UNCHANGED <<queryvars, webvars, queuevars, thumbs, files, callvars, procvars, msg, exc, returned>>

\* raise ProcessPhotoError(ex)
Raise ==
    /\ cpc = "raise"
    /\ exc' = "ProcessPhotoError"
    /\ cpc' = "raised"
    /\ UNCHANGED <<queryvars, webvars, queuevars, dbvars, callvars, procvars, msg, returned>>

\* channel.basic_ack(method_frame.delivery_tag), back to the top of the loop
Ack ==
    /\ cpc = "ack"
    /\ acked' = acked \cup {msg.id}
    /\ msg' = NoMsg
    /\ ClearCall
    /\ cpc' = "consume"
    /\ UNCHANGED <<queryvars, webvars, queue, npub, dbvars, procvars, exc, returned>>

\* an exception leaves process_photo_message: nothing in the for loop or in
\* __main__ catches it, the process ends, and the broker puts the message
\* that was not acknowledged back at the head of the queue
Terminate ==
    /\ cpc = "raised"
    /\ queue' = <<msg>> \o queue
    /\ msg' = NoMsg
    /\ ClearCall
    /\ cpc' = "stopped"
    /\ UNCHANGED <<queryvars, webvars, npub, acked, dbvars, procvars, exc, returned>>

Next ==
    \/ Request \/ Publish \/ Close \/ GetPending \/ Respond
    \/ Start \/ Consume \/ Get \/ SetProcessing \/ Download \/ Thumbnail
    \/ Insert \/ SetCompleted \/ Except \/ Raise \/ Ack \/ Terminate

Spec == Init /\ [][Next]_vars

TypeOK ==
    /\ webpc \in {"idle", "publish", "returned", "raised"}
    /\ cpc \in {"stopped", "consume", "get", "set_processing", "download", "thumbnail",
                "insert", "set_completed", "except", "raise", "ack", "raised"}
    /\ \A p \in DOMAIN status : status[p] \in Status
    /\ starts \in 0..MaxStarts
    /\ nreq \in 0..MaxRequests

(* ---------------- properties ---------------- *)
\* the current call downloaded a decodable image with status 200
GoodSource ==
    /\ resp.kind = "response"
    /\ resp.status_code = HTTP_OK
    /\ resp.content.decodable

\* download_img raised ImgFileDownloadError in the current call
FetchFailed ==
    /\ resp # NoTransport
    /\ download_img(resp).raises = "ImgFileDownloadError"

\* download_img returned bytes in the current call that are no image
ThumbnailFailed ==
    /\ resp # NoTransport
    /\ download_img(resp).raises = NoException
    /\ ~resp.content.decodable

\* C1: a call of process_photo_message for a photo whose image is downloaded
\* with status 200 and decodes ends by returning, with the photo completed and
\* exactly one photo_thumbnails row referencing it
C1_GoodPhotoCompletes ==
    (GoodSource /\ cpc \in {"ack", "raised"}) =>
        /\ cpc = "ack"
        /\ status[photo_uuid] = "completed"
        /\ Cardinality(ThumbnailsOf(photo_uuid)) = 1

\* C2: when the download or the thumbnail creation fails, the call goes
\* through the except clause only, no photo_thumbnails row is created during
\* the call, the status is failed before ProcessPhotoError is raised, and
\* ProcessPhotoError is what the caller gets
C2_FailedThenRaised ==
    (FetchFailed \/ ThumbnailFailed) =>
        /\ cpc \in {"thumbnail", "except", "raise", "raised"}
        /\ thumbs = thumbs0
        /\ cpc \in {"raise", "raised"} => status[photo_uuid] = "failed"
        /\ cpc = "raised" => exc = "ProcessPhotoError"

C2_Witness ==
    /\ cpc = "raised"
    /\ exc = "ProcessPhotoError"
    /\ ThumbnailFailed
    /\ status[photo_uuid] = "failed"

\* C3: a photo whose status is completed keeps that status in every step
C3_CompletedIsTerminal ==
    [][\A p \in PhotoKeys : status[p] = "completed" => status'[p] = "completed"]_vars

\* C4: the consumer process is never ended by a ProcessPhotoError or a
\* NoPhotoRecordFoundError of one message
C4_LoopSurvivesFailure ==
    ~(cpc = "stopped" /\ exc \in {"ProcessPhotoError", "NoPhotoRecordFoundError"})

\* C5: every acknowledged message has had its process_photo_message call
\* return, and the message being processed is not acknowledged
C5_AckAfterReturn ==
    /\ acked \subseteq returned
    /\ msg # NoMsg => msg.id \notin acked

C5_Witness ==
    /\ acked # {}
    /\ cpc = "download"

\* C6: no photo has more than one photo_thumbnails row
C6_AtMostOneThumbnail ==
    \A p \in PhotoKeys : Cardinality(ThumbnailsOf(p)) <= 1

\* C7: a photo whose status is failed has no photo_thumbnails row
C7_FailedHasNoThumbnail ==
    \A p \in PhotoKeys : status[p] = "failed" => ThumbnailsOf(p) = {}

\* C8: when an exception leaves process_photo_message for a photo that has a
\* row, the photo's status is failed
C8_ErrorMeansFailed ==
    (cpc = "raised" /\ photo_uuid \in DOMAIN status) => status[photo_uuid] = "failed"

\* C9: download_img raises ImgFileDownloadError on a status other than 200,
\* on an empty body, on a ConnectionError and on an HTTPError, and it returns
\* the body only for a 200 response with a non-empty body
C9_DownloadContract ==
    resp # NoTransport =>
        LET res == download_img(resp)
            listed == \/ resp.kind \in {"ConnectionError", "HTTPError"}
                      \/ resp.kind = "response" /\ resp.status_code # HTTP_OK
                      \/ resp.kind = "response" /\ resp.content.len = 0
        IN  /\ listed => res.raises = "ImgFileDownloadError"
            /\ res.raises = NoException =>
                 /\ resp.kind = "response"
                 /\ resp.status_code = HTTP_OK
                 /\ resp.content.len > 0
                 /\ res.value = resp.content

\* the ids of a sequence of messages increase by one from message to message
Consecutive(ms) == \A k \in 1..(Len(ms) - 1) : ms[k + 1].id = ms[k].id + 1

\* C10: when process_photos returns it has published one message per
\* identifier of the list, in the order of the list, the body of the k-th
\* decodes to the k-th identifier, and what the consumer decodes from a
\* delivered message is the identifier the message was published for
C10_OneMessagePerIdentifier ==
    /\ webpc = "returned" =>
         /\ Len(sent) = Len(uuids)
         /\ Consecutive(sent)
         /\ \A k \in 1..Len(sent) :
              UUID_from_bytes(sent[k].body) = UUID_hex(uuids[k])
    /\ msg # NoMsg => photo_uuid = UUID_hex(msg.ident)

C10_Witness ==
    /\ webpc = "returned"
    /\ Len(uuids) = 2
    /\ uuids[1] # uuids[2]
    /\ msg # NoMsg
    /\ msg.ident = uuids[2]

\* C11: messages are handled one at a time in publish order: every message
\* published before the one in progress has been acknowledged, the messages
\* still queued were all published after it, and at most one photo has the
\* status processing
C11_OneAtATimeInOrder ==
    /\ msg # NoMsg =>
         /\ \A j \in 1..(msg.id - 1) : j \in acked
         /\ \A k \in 1..Len(queue) : queue[k].id > msg.id
    /\ \A k \in 1..(Len(queue) - 1) : queue[k].id < queue[k + 1].id
    /\ Cardinality({p \in PhotoKeys : status[p] = "processing"}) <= 1

C11_Witness ==
    /\ msg # NoMsg
    /\ msg.id = 2
    /\ cpc = "download"
    /\ status[photo_uuid] = "processing"
    /\ \E p \in PhotoKeys : status[p] \in {"completed", "failed"}

\* C12: a call for a photo that already has a photo_thumbnails row from an
\* earlier successful run, and whose image is downloaded and decodes again,
\* returns with the photo completed and every thumbnail of the photo stored
\* at the one location derived from the photo's uuid
C12_SecondRunCompletes ==
    (/\ cpc \in {"ack", "raised"}
     /\ GoodSource
     /\ \E t \in thumbs0 : t.photo_uuid = photo_uuid) =>
        /\ cpc = "ack"
        /\ status[photo_uuid] = "completed"
        /\ \A t \in ThumbnailsOf(photo_uuid) : t.url = thumbnail_url(photo_uuid)
        /\ \E f \in files : f.url = thumbnail_url(photo_uuid)

\* C13: the rows a pending query returns are exactly the photos whose status
\* is pending when the query runs, each once, oldest first
C13_PendingQuery ==
    [][(qpc = "idle" /\ qpc' = "queried") =>
         /\ {photos'[k].uuid : k \in 1..Len(photos')}
              = {p \in PhotoKeys : status[p] = "pending"}
         /\ Len(photos') = Cardinality({p \in PhotoKeys : status[p] = "pending"})
         /\ \A k \in 1..Len(photos') : photos'[k].status = "pending"
         /\ \A k \in 1..(Len(photos') - 1) :
              photos'[k].created_at <= photos'[k + 1].created_at]_vars

C13_Witness ==
    /\ qpc = "queried"
    /\ Len(photos) = 2
    /\ \E p \in PhotoKeys :
         /\ status[p] \in {"processing", "completed", "failed"}
         /\ \A k \in 1..Len(photos) : photos[k].uuid # p
         /\ CreatedAt[photos[1].uuid] < CreatedAt[p]
         /\ CreatedAt[p] < CreatedAt[photos[2].uuid]

(* ---------------- thumbnail sizes ---------------- *)
\* widths and heights of the source images tried: around the box, far below
\* and far above it
Sides == {1, 50, 100, 319, 320, 321, 480, 640, 900, 2000}

\* the consumer has received the message for photo HexA, committed
\* 'processing' and downloaded an image of w x h pixels
InitThumb ==
    \E w \in Sides, h \in Sides :
        LET m == [id |-> 1, ident |-> StrA, body |-> UUID_bytes(UUID_hex(StrA))]
            r == [kind |-> "response", status_code |-> HTTP_OK,
                  content |-> Body(w * h, TRUE, w, h)]
        IN  /\ webpc = "returned" /\ uuids = <<StrA>> /\ i = 2 /\ sent = <<m>>
            /\ nreq = 1 /\ nsub = 1
            /\ queue = <<>> /\ npub = 1 /\ acked = {}
            /\ status = [p \in PhotoKeys |-> IF p = HexA THEN "processing" ELSE "pending"]
            /\ thumbs = {}
            /\ files = {}
            /\ cpc = "thumbnail" /\ starts = 1 /\ default_uuid = 1
            /\ msg = m /\ photo_uuid = HexA /\ resp = r
            /\ img_content = download_img(r).value /\ photo_thumbnail = NoThumbnail
            /\ exc = NoException /\ thumbs0 = {} /\ returned = {}
            /\ qpc = "idle" /\ photos = <<>>

NextThumb == Thumbnail \/ Insert \/ SetCompleted \/ Ack

SpecThumb == InitThumb /\ [][NextThumb]_vars

\* C14: a thumbnail is at most 320 wide and 320 high, it has the size of the
\* source when the source fits in 320 x 320, and the width and height of the
\* photo_thumbnails row are those of the file stored at the row's url
C14_ThumbnailSize ==
    /\ cpc \in {"insert", "set_completed", "ack"} =>
         /\ photo_thumbnail.width <= 320
         /\ photo_thumbnail.height <= 320
         /\ (img_content.w <= 320 /\ img_content.h <= 320) =>
              /\ photo_thumbnail.width = img_content.w
              /\ photo_thumbnail.height = img_content.h
    /\ cpc \in {"set_completed", "ack"} =>
         \E t \in thumbs : /\ t.photo_uuid = photo_uuid
                           /\ t.width = photo_thumbnail.width
                           /\ t.height = photo_thumbnail.height
    /\ \A t \in thumbs :
         /\ t.width <= 320
         /\ t.height <= 320
         /\ \E f \in files : f.url = t.url /\ f.width = t.width /\ f.height = t.height

C14_Witness ==
    /\ cpc = "ack"
    /\ img_content.w = 100
    /\ img_content.h = 900
    /\ \E t \in thumbs : t.width < 100 /\ t.height = 320

\* the call in progress is for a uuid that has no photos row
MissingRow(u) == u # NoUUID /\ u \notin PhotoKeys

\* C15: a call for a uuid without a photos row only raises
\* NoPhotoRecordFoundError: no step from its delivery to the end of the
\* process writes a status, a photo_thumbnails row or a thumbnail file, and
\* no download is attempted
C15_NotFoundNoEffect ==
    [][(MissingRow(photo_uuid) \/ MissingRow(photo_uuid')) =>
         /\ status' = status
         /\ thumbs' = thumbs
         /\ files' = files
         /\ resp' = NoTransport
         /\ cpc' \in {"get", "raised", "stopped"}
         /\ cpc' = "raised" => exc' = "NoPhotoRecordFoundError"]_vars

C15_Witness ==
    /\ cpc = "raised"
    /\ exc = "NoPhotoRecordFoundError"
    /\ photo_uuid = HexC
    /\ \E p \in PhotoKeys : status[p] = "completed"

\* the photo of the message at the head of the queue
HeadPhoto == UUID_from_bytes(Head(queue).body)

\* C16: the status processing is committed before the download starts, so it
\* is what a reader sees while the download, the thumbnail creation and the
\* insert run, and a process that ends between the steps leaves the photo in
\* the status committed last
C16_ProcessingVisible ==
    /\ cpc \in {"download", "thumbnail", "insert", "set_completed"} =>
         status[photo_uuid] = "processing"
    /\ cpc \in {"except", "raise"} => status[photo_uuid] \in {"processing", "failed"}
    /\ (cpc = "stopped" /\ exc \in {"ChunkedEncodingError", "IntegrityError"}) =>
         status[HeadPhoto] = "processing"
    /\ (cpc = "stopped" /\ exc = "ProcessPhotoError") => status[HeadPhoto] = "failed"

C16_Witness ==
    /\ cpc = "stopped"
    /\ exc = "ChunkedEncodingError"
    /\ status[HeadPhoto] = "processing"

\* C17: when the INSERT of the photo_thumbnails row fails, the error leaves
\* process_photo_message without passing through the except clause, the
\* status stays processing, no row is added, and the message is not
\* acknowledged: it is back in the queue when the process has ended
C17_PersistFailureUnhandled ==
    exc = "IntegrityError" =>
        /\ cpc \in {"raised", "stopped"}
        /\ cpc = "raised" =>
             /\ status[photo_uuid] = "processing"
             /\ thumbs = thumbs0
             /\ msg.id \notin acked
             /\ msg.id \notin returned
        /\ cpc = "stopped" =>
             /\ queue # <<>>
             /\ Head(queue).id \notin acked
             /\ status[HeadPhoto] = "processing"

C17_Witness ==
    /\ exc = "IntegrityError"
    /\ cpc = "stopped"
    /\ Head(queue).id = 2
    /\ 1 \in acked
    /\ status[HeadPhoto] = "processing"

\* the messages that are in the queue, delivered or acknowledged
Held(m) ==
    \/ \E k \in 1..Len(queue) : queue[k] = m
    \/ msg = m
    \/ m.id \in acked

\* C18: while process_photos runs, and when it has stopped on an identifier
\* that is no uuid, the messages it has published are those of the
\* identifiers before the position reached, in the order of the list, none
\* exists for the identifiers from that position on, and every published
\* message is still in the queue, delivered or acknowledged
C18_PrefixPublished ==
    webpc \in {"publish", "raised"} =>
        /\ Len(sent) = i - 1
        /\ Consecutive(sent)
        /\ \A k \in 1..Len(sent) :
             /\ sent[k].ident = uuids[k]
             /\ UUID_from_bytes(sent[k].body) = UUID_hex(uuids[k])
             /\ Held(sent[k])
        /\ sent # <<>> => sent[Len(sent)].id = npub
        /\ \A k \in 1..Len(queue) : queue[k].id <= npub
        /\ webpc = "raised" => i <= Len(uuids) /\ ~UUID_valid(uuids[i])

C18_Witness ==
    /\ webpc = "raised"
    /\ i = 2
    /\ Len(uuids) = 2
    /\ Len(sent) = 1
    /\ Held(sent[1])

\* C19: the photo_thumbnails row a call is about to insert never has the
\* primary key of a row already in the table, and the rows of the table have
\* pairwise distinct primary keys
C19_DistinctThumbnailIds ==
    /\ cpc = "insert" => \A t \in thumbs : t.uuid # default_uuid
    /\ \A s, t \in thumbs : s # t => s.uuid # t.uuid

\* C20: a photo whose status is completed has a photo_thumbnails row
C20_CompletedHasThumbnail ==
    \A p \in PhotoKeys : status[p] = "completed" => ThumbnailsOf(p) # {}

C20_Witness ==
    /\ \E p \in PhotoKeys : status[p] = "completed" /\ ThumbnailsOf(p) # {}
    /\ \E p \in PhotoKeys : status[p] = "processing"

====
